---- MODULE Spec2Model ----
(***************************************************************************)
(* Model of the Web3 client object (src/src/web3.js) and of protocol       *)
(* auto-detection (src/src/protocols/index.js).                            *)
(*                                                                         *)
(* JavaScript values are records [kind, val]; "kind" is the tag and is     *)
(* compared before "val", so values of different kinds compare unequal.    *)
(***************************************************************************)
EXTENDS Integers, Sequences, FiniteSets, TLC

VARIABLES
    ctor,       \* outcome of the last `new Web3(protocol)`: input, thrown error
    protocol,   \* this.protocol of the Web3 instance (Undefined before construction)
    calls,      \* per client slot: the method call in flight and its promises
    enc         \* state of one Encoder call (argument head/tail encoding)

vars == <<ctor, protocol, calls, enc>>

(***************************************************************************)
(* Bounds                                                                  *)
(***************************************************************************)
MaxOutstanding == 2     \* concurrent searchlogs calls of the concurrent client
MaxBatch == 3           \* log entries in one transport result
MaxArgs == 3            \* arguments of an encoded call

(***************************************************************************)
(* JavaScript values                                                       *)
(***************************************************************************)
Undefined == [kind |-> "undefined", val |-> 0]
Null == [kind |-> "null", val |-> 0]
NaN == [kind |-> "NaN", val |-> 0]
Infinity == [kind |-> "Infinity", val |-> 0]
Bool(b) == [kind |-> "boolean", val |-> b]
Num(n) == [kind |-> "number", val |-> n]
Str(s) == [kind |-> "string", val |-> s]
Arr(a) == [kind |-> "array", val |-> a]
Obj(id) == [kind |-> "object", val |-> id]
Err(msg) == [kind |-> "Error", val |-> msg]
Tok(i) == [kind |-> "token", val |-> i]     \* opaque caller value for position i
Provider(id, rc) == [kind |-> "provider", val |-> [id |-> id, rawCall |-> rc]]
Function == [kind |-> "function", val |-> 0]

\* the typeof operator
TypeOf(v) ==
    CASE v.kind = "undefined" -> "undefined"
      [] v.kind = "boolean" -> "boolean"
      [] v.kind \in {"number", "NaN", "Infinity"} -> "number"
      [] v.kind = "string" -> "string"
      [] v.kind = "function" -> "function"
      [] OTHER -> "object"

\* ToBoolean
Truthy(v) ==
    CASE v.kind \in {"undefined", "null", "NaN"} -> FALSE
      [] v.kind = "boolean" -> v.val
      [] v.kind = "number" -> v.val # 0
      [] v.kind = "string" -> v.val # ""
      [] OTHER -> TRUE

\* lodash predicates imported by web3.js
isFinite(v) == v.kind = "number"
isString(v) == v.kind = "string"
isArray(v) == v.kind = "array"

(***************************************************************************)
(* protocols/index.js                                                      *)
(***************************************************************************)
\* new HttpProtocol(url): the transport collaborator, which provides rawCall
HttpProtocol(url) == [kind |-> "HttpProtocol", val |-> url]

\* property read protocol.rawCall
RawCallOf(p) ==
    CASE p.kind = "provider" -> p.val.rawCall
      [] p.kind = "HttpProtocol" -> Function
      [] OTHER -> Undefined

Threw(msg) == [threw |-> TRUE, error |-> Err(msg), value |-> Undefined]
Returned(v) == [threw |-> FALSE, error |-> Undefined, value |-> v]

\* initProtocol that only tests rawCall for truthiness
initProtocol_truthyRawCall(p) ==
    IF ~Truthy(p)
    THEN Threw("protocol cannot be undefined.")
    ELSE IF TypeOf(p) = "string"
    THEN Returned(HttpProtocol(p.val))
    ELSE IF ~Truthy(RawCallOf(p))
    THEN Threw("protocol is not a compatible Web3 Provider.")
    ELSE Returned(p)

initProtocol(p) ==
    IF ~Truthy(p)
    THEN Threw("protocol cannot be undefined.")
    ELSE IF TypeOf(p) = "string"
    THEN Returned(HttpProtocol(p.val))
    ELSE IF ~Truthy(RawCallOf(p)) \/ TypeOf(RawCallOf(p)) # "function"
    THEN Threw("protocol is not a compatible Web3 Provider.")
    ELSE Returned(p)

\* values a caller may hand to the constructor
ProtocolInputs ==
    { Undefined, Null, Str(""), Num(0), Bool(FALSE),
      Str("http://node:9888"), Num(5), Bool(TRUE),
      Provider(1, Undefined), Provider(2, Str("rawCall")), Provider(3, Num(0)),
      Provider(4, Function) }

(***************************************************************************)
(* Calls and promises                                                      *)
(***************************************************************************)
Slots == 1..MaxOutstanding

NoPromise == [state |-> "none", value |-> Undefined]
Pending == [state |-> "pending", value |-> Undefined]
Fulfilled(v) == [state |-> "fulfilled", value |-> v]
Rejected(e) == [state |-> "rejected", value |-> e]

\* a slot with no call in flight
Idle ==
    [ method |-> "idle", args |-> <<>>, raw |-> <<>>, tp |-> NoPromise,
      dp |-> NoPromise, returned |-> "none", thrown |-> Undefined, dec |-> <<>> ]

\* errors the transport may raise
TransportErrors == { Err("ECONNREFUSED"), Err("RPC -32601") }

\* results the node may return for a pass-through method
RpcValues ==
    { Undefined, Null, Bool(TRUE), Num(7), Str("hash"), Obj(1), Arr(<<Str("c1")>>) }

\* argument i of a call; a missing argument reads as undefined
Arg(a, i) == IF i <= Len(a) THEN a[i] ELSE Undefined

\* default parameter value: applies when the argument is undefined
Default(v, d) == IF v = Undefined THEN d ELSE v

\* argument lists a caller passes to a method documented with n parameters:
\* the first k positions, at most one of them explicitly undefined
CallerArgs(n) ==
    { [i \in 1..k |-> IF i = h THEN Undefined ELSE Tok(i)] :
        <<k, h>> \in { <<kk, hh>> \in (0..n) \X (0..n) : hh <= kk } }

Constructed == protocol # Undefined

\* the promise a call handed back to its caller
ReturnedPromise(c) == IF c.returned = "tp" THEN c.tp ELSE c.dp

\* the caller has the outcome of the call: it threw, or its promise settled
Complete(c) ==
    \/ c.returned = "threw"
    \/ c.returned \in {"tp", "dp"} /\ ReturnedPromise(c).state \in {"fulfilled", "rejected"}

\* a client slot may start a call when it has none or has consumed the last one
SlotFree(s) == calls[s].method = "idle" \/ Complete(calls[s])

\* a pass-through method that returns a promise chained on the transport's
Forward_chained(s, name, a, node, params) ==
    /\ Constructed
    /\ SlotFree(s)
    /\ \/ calls' = [calls EXCEPT ![s] =
                [Idle EXCEPT !.method = name, !.args = a,
                             !.raw = <<[method |-> node, params |-> params]>>,
                             !.tp = Pending, !.dp = Pending, !.returned = "dp"]]
       \/ \E e \in TransportErrors :
            calls' = [calls EXCEPT ![s] =
                [Idle EXCEPT !.method = name, !.args = a,
                             !.raw = <<[method |-> node, params |-> params]>>,
                             !.returned = "threw", !.thrown = e]]
    /\ UNCHANGED <<ctor, protocol, enc>>

\* this.protocol.rawCall(node, params) issued by method `name` and returned as is.
\* rawCall either returns its promise or throws before returning one.
Forward(s, name, a, node, params) ==
    /\ Constructed
    /\ SlotFree(s)
    /\ \/ calls' = [calls EXCEPT ![s] =
                [Idle EXCEPT !.method = name, !.args = a,
                             !.raw = <<[method |-> node, params |-> params]>>,
                             !.tp = Pending, !.returned = "tp"]]
       \/ \E e \in TransportErrors :
            calls' = [calls EXCEPT ![s] =
                [Idle EXCEPT !.method = name, !.args = a,
                             !.raw = <<[method |-> node, params |-> params]>>,
                             !.returned = "threw", !.thrown = e]]
    /\ UNCHANGED <<ctor, protocol, enc>>

(***************************************************************************)
(* web3.js: constructor                                                    *)
(***************************************************************************)
constructor(p) ==
    /\ ~Constructed
    /\ ctor' = [called |-> TRUE, input |-> p, threw |-> initProtocol(p).threw,
                error |-> initProtocol(p).error]
    /\ protocol' = initProtocol(p).value
    /\ UNCHANGED <<calls, enc>>

(***************************************************************************)
(* web3.js: pass-through RPC methods                                       *)
(***************************************************************************)
getblock(s, a) ==
    Forward(s, "getblock", a, "getblock", Arr(<<Arg(a, 1), Default(Arg(a, 2), Bool(TRUE))>>))

getblockchaininfo(s, a) ==
    Forward(s, "getblockchaininfo", a, "getblockchaininfo", Undefined)

getblockcount(s, a) ==
    Forward(s, "getblockcount", a, "getblockcount", Undefined)

getblockhash(s, a) ==
    Forward(s, "getblockhash", a, "getblockhash", Arr(<<Arg(a, 1)>>))

gettransactionreceipt(s, a) ==
    Forward(s, "gettransactionreceipt", a, "gettransactionreceipt", Arr(<<Arg(a, 1)>>))

listcontracts(s, a) ==
    Forward(s, "listcontracts", a, "listcontracts",
            Arr(<<Default(Arg(a, 1), Num(1)), Default(Arg(a, 2), Num(20))>>))

getpeerinfo(s, a) ==
    Forward(s, "getpeerinfo", a, "getpeerinfo", Undefined)

gethexaddress(s, a) ==
    Forward(s, "gethexaddress", a, "gethexaddress", Arr(<<Arg(a, 1)>>))

fromhexaddress(s, a) ==
    Forward(s, "fromhexaddress", a, "fromhexaddress", Arr(<<Arg(a, 1)>>))

validateaddress(s, a) ==
    Forward(s, "validateaddress", a, "validateaddress", Arr(<<Arg(a, 1)>>))

backupwallet(s, a) ==
    Forward(s, "backupwallet", a, "backupwallet", Arr(<<Arg(a, 1)>>))

dumpprivkey(s, a) ==
    Forward(s, "dumpprivkey", a, "dumpprivkey", Arr(<<Arg(a, 1)>>))

encryptwallet(s, a) ==
    Forward(s, "encryptwallet", a, "encryptwallet", Arr(<<Arg(a, 1)>>))

getaccount(s, a) ==
    Forward(s, "getaccount", a, "getaccount", Arr(<<Arg(a, 1)>>))

getAccountAddress(s, a) ==
    Forward(s, "getAccountAddress", a, "getaccountaddress",
            Arr(<<Default(Arg(a, 1), Str(""))>>))

getaddressesbyaccount(s, a) ==
    Forward(s, "getaddressesbyaccount", a, "getaddressesbyaccount",
            Arr(<<Default(Arg(a, 1), Str(""))>>))

getnewaddress(s, a) ==
    Forward(s, "getnewaddress", a, "getnewaddress", Arr(<<Default(Arg(a, 1), Str(""))>>))

gettransaction(s, a) ==
    Forward(s, "gettransaction", a, "gettransaction", Arr(<<Arg(a, 1)>>))

getwalletinfo(s, a) ==
    Forward(s, "getwalletinfo", a, "getwalletinfo", Undefined)

getunconfirmedbalance(s, a) ==
    Forward(s, "getunconfirmedbalance", a, "getunconfirmedbalance", Undefined)

importaddress(s, a) ==
    Forward(s, "importaddress", a, "importaddress",
            Arr(<<Arg(a, 1), Default(Arg(a, 2), Str("")), Default(Arg(a, 3), Bool(TRUE))>>))

importprivkey(s, a) ==
    Forward(s, "importprivkey", a, "importprivkey",
            Arr(<<Arg(a, 1), Default(Arg(a, 2), Str("")), Default(Arg(a, 3), Bool(TRUE))>>))

importwallet(s, a) ==
    Forward(s, "importwallet", a, "importwallet", Arr(<<Arg(a, 1)>>))

listaddressgroupings(s, a) ==
    Forward(s, "listaddressgroupings", a, "listaddressgroupings", Undefined)

listlockunspent(s, a) ==
    Forward(s, "listlockunspent", a, "listlockunspent", Undefined)

listunspent(s, a) ==
    Forward(s, "listunspent", a, "listunspent", Undefined)

sendtoaddress(s, a) ==
    Forward(s, "sendtoaddress", a, "sendtoaddress",
            Arr(<<Arg(a, 1), Arg(a, 2), Default(Arg(a, 3), Str("")),
                  Default(Arg(a, 4), Str(""))>>))

settxfee(s, a) ==
    Forward(s, "settxfee", a, "settxfee", Arr(<<Arg(a, 1)>>))

walletlock(s, a) ==
    Forward(s, "walletlock", a, "walletlock", Undefined)

walletpassphrase(s, a) ==
    Forward(s, "walletpassphrase", a, "walletpassphrase",
            Arr(<<Arg(a, 1), Arg(a, 2), Default(Arg(a, 3), Bool(FALSE))>>))

walletpassphrasechange(s, a) ==
    Forward(s, "walletpassphrasechange", a, "walletpassphrasechange",
            Arr(<<Arg(a, 1), Arg(a, 2)>>))

(***************************************************************************)
(* decoder.js: Decoder.decodeSearchLog (Event Log Decoder)                 *)
(***************************************************************************)
Word(n) == [kind |-> "word", val |-> n]
Hash(sig) == [kind |-> "hash", val |-> sig]
Hex(prefixed, n) == [kind |-> "hex", val |-> [prefixed |-> prefixed, digits |-> n]]
Log(address, topics, data) ==
    [kind |-> "log", val |-> [address |-> address, topics |-> topics, data |-> data]]
Metadata(map) == [kind |-> "metadata", val |-> map]

Input(name, type, indexed) == [name |-> name, type |-> type, indexed |-> indexed]

Transfer ==
    [ name |-> "Transfer",
      inputs |-> << Input("from", "address", TRUE), Input("to", "address", TRUE),
                    Input("value", "uint256", FALSE) >> ]

Deposit ==
    [ name |-> "Deposit",
      inputs |-> << Input("who", "address", FALSE), Input("amount", "uint256", FALSE) >> ]

\* name(type1,...,typeN) over all inputs, indexed or not
Signature(ev) == <<ev.name, [i \in 1..Len(ev.inputs) |-> ev.inputs[i].type]>>

\* the one-way hash of the signature, modelled as collision free
Selector(ev) == Hash(Signature(ev))

\* Type Codec: one word to a native value
decodeValue(type, w, strip) ==
    CASE type = "address" -> Hex(~strip, w.val)
      [] type = "bool" -> Bool(w.val # 0)
      [] OTHER -> Num(w.val)

\* index of the first candidate event whose selector is the first topic, or 0
RECURSIVE MatchFrom(_, _, _)
MatchFrom(cands, topic0, i) ==
    IF i > Len(cands) THEN 0
    ELSE IF Selector(cands[i]) = topic0 THEN i
    ELSE MatchFrom(cands, topic0, i + 1)

\* number of inputs among the first i with the given indexed flag
RECURSIVE CountIndexed(_, _, _)
CountIndexed(inputs, i, flag) ==
    IF i = 0 THEN 0
    ELSE CountIndexed(inputs, i - 1, flag) + (IF inputs[i].indexed = flag THEN 1 ELSE 0)

\* decoded fields of a matched event, in declaration order
decodeFields(ev, log, strip) ==
    [ i \in 1..Len(ev.inputs) |->
        [ name |-> ev.inputs[i].name,
          value |-> IF ev.inputs[i].indexed
                    THEN decodeValue(ev.inputs[i].type,
                                     log.topics[1 + CountIndexed(ev.inputs, i, TRUE)], strip)
                    ELSE decodeValue(ev.inputs[i].type,
                                     log.data[CountIndexed(ev.inputs, i, FALSE)], strip) ] ]

decodeEntry(entry, md, strip) ==
    LET log == entry.val
        cands == IF log.address \in DOMAIN md THEN md[log.address] ELSE <<>>
        m == IF Len(log.topics) = 0 THEN 0 ELSE MatchFrom(cands, log.topics[1], 1)
    IN  IF m = 0
        THEN entry
        ELSE IF \/ Len(log.data) < CountIndexed(cands[m].inputs, Len(cands[m].inputs), FALSE)
                \/ Len(log.topics) < 1 + CountIndexed(cands[m].inputs, Len(cands[m].inputs), TRUE)
        THEN [kind |-> "logError", val |-> log]
        ELSE [kind |-> "decodedLog",
              val |-> [ address |-> log.address, event |-> cands[m].name,
                        fields |-> decodeFields(cands[m], log, strip) ]]

\* a decoder that leaves out the entries it cannot decode
decodeSearchLog_dropUnresolved(results, contractMetadata, removeHexPrefix) ==
    Arr(SelectSeq([i \in 1..Len(results.val) |->
                      decodeEntry(results.val[i], contractMetadata.val, Truthy(removeHexPrefix))],
                  LAMBDA d : d.kind = "decodedLog"))

decodeSearchLog(results, contractMetadata, removeHexPrefix) ==
    Arr([i \in 1..Len(results.val) |->
            decodeEntry(results.val[i], contractMetadata.val, Truthy(removeHexPrefix))])

(***************************************************************************)
(* web3.js: isConnected                                                    *)
(***************************************************************************)
\* the call: the body runs up to the await; a throw of rawCall is caught
isConnected(s) ==
    /\ Constructed
    /\ SlotFree(s)
    /\ \/ calls' = [calls EXCEPT ![s] =
                [Idle EXCEPT !.method = "isConnected",
                             !.raw = <<[method |-> "getnetworkinfo", params |-> Undefined]>>,
                             !.tp = Pending, !.dp = Pending, !.returned = "dp"]]
       \/ \E e \in TransportErrors :
            calls' = [calls EXCEPT ![s] =
                [Idle EXCEPT !.method = "isConnected",
                             !.raw = <<[method |-> "getnetworkinfo", params |-> Undefined]>>,
                             !.dp = Fulfilled(Bool(FALSE)), !.returned = "dp"]]
    /\ UNCHANGED <<ctor, protocol, enc>>

\* a continuation without the catch: a rejection reaches the caller
isConnectedResume_noCatch(s) ==
    /\ calls[s].method = "isConnected"
    /\ calls[s].dp.state = "pending"
    /\ calls[s].tp.state \in {"fulfilled", "rejected"}
    /\ calls' = [calls EXCEPT ![s].dp =
            IF calls[s].tp.state = "fulfilled"
            THEN Fulfilled(Bool(TypeOf(calls[s].tp.value) = "object"))
            ELSE Rejected(calls[s].tp.value)]
    /\ UNCHANGED <<ctor, protocol, enc>>

\* the continuation after the await
isConnectedResume(s) ==
    /\ calls[s].method = "isConnected"
    /\ calls[s].dp.state = "pending"
    /\ calls[s].tp.state \in {"fulfilled", "rejected"}
    /\ calls' = [calls EXCEPT ![s].dp =
            IF calls[s].tp.state = "fulfilled"
            THEN Fulfilled(Bool(TypeOf(calls[s].tp.value) = "object"))
            ELSE Fulfilled(Bool(FALSE))]
    /\ UNCHANGED <<ctor, protocol, enc>>

(***************************************************************************)
(* web3.js: searchlogs                                                     *)
(***************************************************************************)
\* an object literal with one property
Rec(key, v) == [kind |-> "record", val |-> [key |-> key, value |-> v]]

\* a string filter forwarded bare
SingleOrMany_bare(v) == v

\* string-or-array filter argument as an array
SingleOrMany(v) == IF isString(v) THEN Arr(<<v>>) ELSE v

\* validation that does not check topics
searchlogsParams_topicsUnchecked(a) ==
    IF ~isFinite(Arg(a, 1))
    THEN Threw("fromBlock must be a number")
    ELSE IF ~isFinite(Arg(a, 2))
    THEN Threw("toBlock must be a number.")
    ELSE IF ~(isString(Arg(a, 3)) \/ isArray(Arg(a, 3)))
    THEN Threw("addresses must be a string or an array.")
    ELSE Returned(Arr(<< Arg(a, 1), Arg(a, 2),
                         Rec("addresses", SingleOrMany(Arg(a, 3))),
                         Rec("topics", SingleOrMany(Arg(a, 4))) >>))

\* argument validation and the params of the rawCall
searchlogsParams(a) ==
    IF ~isFinite(Arg(a, 1))
    THEN Threw("fromBlock must be a number")
    ELSE IF ~isFinite(Arg(a, 2))
    THEN Threw("toBlock must be a number.")
    ELSE IF ~(isString(Arg(a, 3)) \/ isArray(Arg(a, 3)))
    THEN Threw("addresses must be a string or an array.")
    ELSE IF ~(isString(Arg(a, 4)) \/ isArray(Arg(a, 4)))
    THEN Threw("topics must be a string or an array.")
    ELSE Returned(Arr(<< Arg(a, 1), Arg(a, 2),
                         Rec("addresses", SingleOrMany(Arg(a, 3))),
                         Rec("topics", SingleOrMany(Arg(a, 4))) >>))

\* a then-callback that reads the filter context of the instance's first call
DecodeArgs_shared(cs, s) == << cs[s].tp.value, Arg(cs[1].args, 5), Arg(cs[1].args, 6) >>

\* what the then-callback of a call hands to Decoder.decodeSearchLog
DecodeArgs(cs, s) == << cs[s].tp.value, Arg(cs[s].args, 5), Arg(cs[s].args, 6) >>

searchlogs(s, a) ==
    /\ Constructed
    /\ SlotFree(s)
    /\ IF searchlogsParams(a).threw
       THEN calls' = [calls EXCEPT ![s] =
                [Idle EXCEPT !.method = "searchlogs", !.args = a,
                             !.returned = "threw", !.thrown = searchlogsParams(a).error]]
       ELSE \/ calls' = [calls EXCEPT ![s] =
                [Idle EXCEPT !.method = "searchlogs", !.args = a,
                             !.raw = <<[method |-> "searchlogs",
                                        params |-> searchlogsParams(a).value]>>,
                             !.tp = Pending, !.dp = Pending, !.returned = "dp"]]
            \/ \E e \in TransportErrors :
                 calls' = [calls EXCEPT ![s] =
                    [Idle EXCEPT !.method = "searchlogs", !.args = a,
                                 !.raw = <<[method |-> "searchlogs",
                                            params |-> searchlogsParams(a).value]>>,
                                 !.returned = "threw", !.thrown = e]]
    /\ UNCHANGED <<ctor, protocol, enc>>

\* the reaction to a fulfilled rawCall: results => Decoder.decodeSearchLog(...)
searchlogsThen(s) ==
    /\ calls[s].method = "searchlogs"
    /\ calls[s].dp.state = "pending"
    /\ calls[s].tp.state = "fulfilled"
    /\ calls' = [calls EXCEPT
            ![s].dec = Append(@, DecodeArgs(calls, s)),
            ![s].dp = Fulfilled(decodeSearchLog(DecodeArgs(calls, s)[1],
                                                DecodeArgs(calls, s)[2],
                                                DecodeArgs(calls, s)[3]))]
    /\ UNCHANGED <<ctor, protocol, enc>>

\* a reaction that swallows the transport error
searchlogsRejected_swallowed(s) ==
    /\ calls[s].method = "searchlogs"
    /\ calls[s].dp.state = "pending"
    /\ calls[s].tp.state = "rejected"
    /\ calls' = [calls EXCEPT ![s].dp = Fulfilled(Arr(<<>>))]
    /\ UNCHANGED <<ctor, protocol, enc>>

\* the reaction to a rejected rawCall: then() without a rejection handler
searchlogsRejected(s) ==
    /\ calls[s].method = "searchlogs"
    /\ calls[s].dp.state = "pending"
    /\ calls[s].tp.state = "rejected"
    /\ calls' = [calls EXCEPT ![s].dp = Rejected(calls[s].tp.value)]
    /\ UNCHANGED <<ctor, protocol, enc>>

(***************************************************************************)
(* The transport collaborator settles the promise of a rawCall             *)
(***************************************************************************)
rawCallResolve(s, v) ==
    /\ calls[s].tp.state = "pending"
    /\ calls' = [calls EXCEPT ![s].tp = Fulfilled(v)]
    /\ UNCHANGED <<ctor, protocol, enc>>

rawCallReject(s, e) ==
    /\ calls[s].tp.state = "pending"
    /\ calls' = [calls EXCEPT ![s].tp = Rejected(e)]
    /\ UNCHANGED <<ctor, protocol, enc>>

(***************************************************************************)
(* encoder.js: Call Encoder, head/tail encoding of the arguments           *)
(***************************************************************************)
WordBytes == 32

Chunk(id, k) == [kind |-> "chunk", val |-> <<id, k>>]
Placeholder(i) == [kind |-> "placeholder", val |-> i]
Typed(type, value) == [kind |-> type, val |-> value]
Text(id, len) == [id |-> id, len |-> len]

IsDynamic(type) == type \in {"string", "bytes", "uint256[]"}

\* content words of n bytes, right-padded to whole words
ContentWords(n) == (n + WordBytes - 1) \div WordBytes

\* Type Codec: native value to words
encodeValue(type, value) ==
    CASE type \in {"string", "bytes"} ->
            <<Word(value.len)>> \o [k \in 1..ContentWords(value.len) |-> Chunk(value.id, k)]
      [] type = "uint256[]" ->
            <<Word(Len(value))>> \o [k \in 1..Len(value) |-> Word(value[k])]
      [] type = "uint256[2]" -> [k \in 1..2 |-> Word(value[k])]
      [] type = "bool" -> <<Word(IF value THEN 1 ELSE 0)>>
      [] OTHER -> <<Word(value)>>

\* an offset that ignores the tails already emitted
TailOffset_headOnly(headWords, priorTailWords) == WordBytes * headWords

\* byte offset of a dynamic argument's tail: head length + prior tail length
TailOffset(headWords, priorTailWords) == WordBytes * headWords + WordBytes * priorTailWords

EncIdle ==
    [ phase |-> "idle", name |-> "", args |-> <<>>, i |-> 0, head |-> <<>>,
      tail |-> <<>>, starts |-> <<>>, payload |-> <<>> ]

\* arguments offered to the encoder
ArgChoices ==
    { Typed("uint256", 100), Typed("uint256[2]", <<1, 2>>), Typed("string", Text("s", 5)),
      Typed("string", Text("t", 33)), Typed("bytes", Text("b", 0)),
      Typed("uint256[]", <<7, 8, 9>>) }

EncInputs == UNION { [1..n -> ArgChoices] : n \in 0..MaxArgs }

\* encodeCall: the method is resolved, the arguments are about to be encoded
encodeCall(name, args) ==
    /\ enc.phase \in {"idle", "done"}
    /\ enc' = [EncIdle EXCEPT !.phase = "args", !.name = name, !.args = args, !.i = 1,
                              !.starts = [k \in 1..Len(args) |-> 0]]
    /\ UNCHANGED <<ctor, protocol, calls>>

\* one argument, in declared order: static into the head, dynamic into the tail
encodeArgument ==
    /\ enc.phase = "args"
    /\ enc.i <= Len(enc.args)
    /\ LET arg == enc.args[enc.i]
       IN  IF IsDynamic(arg.kind)
           THEN enc' = [enc EXCEPT !.head = Append(@, Placeholder(enc.i)),
                                   !.tail = @ \o encodeValue(arg.kind, arg.val),
                                   !.starts[enc.i] = Len(enc.tail),
                                   !.i = @ + 1]
           ELSE enc' = [enc EXCEPT !.head = @ \o encodeValue(arg.kind, arg.val),
                                   !.i = @ + 1]
    /\ UNCHANGED <<ctor, protocol, calls>>

\* placeholders rewritten to byte offsets; selector + head + tail concatenated
finishEncoding ==
    /\ enc.phase = "args"
    /\ enc.i > Len(enc.args)
    /\ LET head == [k \in 1..Len(enc.head) |->
                    IF enc.head[k].kind = "placeholder"
                    THEN Word(TailOffset(Len(enc.head), enc.starts[enc.head[k].val]))
                    ELSE enc.head[k]]
           selector == Hash(<<enc.name, [k \in 1..Len(enc.args) |-> enc.args[k].kind]>>)
       IN  enc' = [enc EXCEPT !.phase = "done", !.head = head,
                              !.payload = <<selector>> \o head \o enc.tail]
    /\ UNCHANGED <<ctor, protocol, calls>>

(***************************************************************************)
(* Inputs of the clients                                                   *)
(***************************************************************************)
LogEntries ==
    { Log("c1", <<Selector(Transfer), Word(11), Word(12)>>, <<Word(500)>>),
      Log("c9", <<Selector(Transfer), Word(11), Word(12)>>, <<Word(500)>>),
      Log("c1", <<Hash(<<"Burn", <<"uint256">>>>)>>, <<Word(3)>>),
      Log("c1", <<Selector(Transfer), Word(11), Word(12)>>, <<>>) }

Batches == { Arr(b) : b \in UNION { [1..n -> LogEntries] : n \in 0..MaxBatch } }

TokenMetadata == Metadata([a \in {"c1"} |-> <<Deposit, Transfer>>])
OtherMetadata == Metadata([a \in {"c2"} |-> <<Transfer>>])

SearchlogsInputs ==
    { <<f, t, ad, tp, md, rm>> :
        f \in {Num(0), NaN, Str("5")}, t \in {Num(-1), Infinity},
        ad \in {Str("c1"), Arr(<<Str("c1"), Str("c2")>>), Obj(1)},
        tp \in {Str("t1"), Arr(<<Str("t2"), Str("t1")>>), Null},
        md \in {TokenMetadata, OtherMetadata}, rm \in {Bool(TRUE), Bool(FALSE)} }

\* inputs of the concurrent client
ConcurrentInputs ==
    { <<Num(0), Num(-1), Str("c1"), Str("t1"), TokenMetadata, Bool(TRUE)>>,
      <<Num(5), Num(9), Arr(<<Str("c1"), Str("c2")>>), Arr(<<>>), OtherMetadata, Bool(FALSE)>>,
      <<Num(0), Num(-1), Str("c1"), Str("t1"), TokenMetadata, Bool(FALSE)>> }

ConcurrentBatches ==
    { Arr(<<>>),
      Arr(<<Log("c1", <<Selector(Transfer), Word(11), Word(12)>>, <<Word(500)>>)>>),
      Arr(<<Log("c1", <<Selector(Transfer), Word(21), Word(22)>>, <<Word(1)>>),
            Log("c9", <<Selector(Transfer), Word(11), Word(12)>>, <<Word(500)>>)>>) }

\* what the node answers to the rawCall of slot s
Answers(s) == IF calls[s].method = "searchlogs" THEN Batches ELSE RpcValues

(***************************************************************************)
(* Specifications                                                          *)
(***************************************************************************)
Init ==
    /\ ctor = [called |-> FALSE, input |-> Undefined, threw |-> FALSE, error |-> Undefined]
    /\ protocol = Undefined
    /\ calls = [s \in Slots |-> Idle]
    /\ enc = EncIdle

\* a client that makes one call at a time
Next ==
    \/ \E p \in ProtocolInputs : constructor(p)
    \/ isConnected(1)
    \/ isConnectedResume(1)
    \/ \E a \in SearchlogsInputs : searchlogs(1, a)
    \/ searchlogsThen(1)
    \/ searchlogsRejected(1)
    \/ \E v \in Answers(1) : rawCallResolve(1, v)
    \/ \E e \in TransportErrors : rawCallReject(1, e)
    \/ \E a \in CallerArgs(2) : getblock(1, a)
    \/ \E a \in CallerArgs(0) : getblockchaininfo(1, a)
    \/ \E a \in CallerArgs(0) : getblockcount(1, a)
    \/ \E a \in CallerArgs(1) : getblockhash(1, a)
    \/ \E a \in CallerArgs(1) : gettransactionreceipt(1, a)
    \/ \E a \in CallerArgs(2) : listcontracts(1, a)
    \/ \E a \in CallerArgs(0) : getpeerinfo(1, a)
    \/ \E a \in CallerArgs(1) : gethexaddress(1, a)
    \/ \E a \in CallerArgs(1) : fromhexaddress(1, a)
    \/ \E a \in CallerArgs(1) : validateaddress(1, a)
    \/ \E a \in CallerArgs(1) : backupwallet(1, a)
    \/ \E a \in CallerArgs(1) : dumpprivkey(1, a)
    \/ \E a \in CallerArgs(1) : encryptwallet(1, a)
    \/ \E a \in CallerArgs(1) : getaccount(1, a)
    \/ \E a \in CallerArgs(1) : getAccountAddress(1, a)
    \/ \E a \in CallerArgs(1) : getaddressesbyaccount(1, a)
    \/ \E a \in CallerArgs(1) : getnewaddress(1, a)
    \/ \E a \in CallerArgs(1) : gettransaction(1, a)
    \/ \E a \in CallerArgs(0) : getwalletinfo(1, a)
    \/ \E a \in CallerArgs(0) : getunconfirmedbalance(1, a)
    \/ \E a \in CallerArgs(3) : importaddress(1, a)
    \/ \E a \in CallerArgs(3) : importprivkey(1, a)
    \/ \E a \in CallerArgs(1) : importwallet(1, a)
    \/ \E a \in CallerArgs(0) : listaddressgroupings(1, a)
    \/ \E a \in CallerArgs(0) : listlockunspent(1, a)
    \/ \E a \in CallerArgs(0) : listunspent(1, a)
    \/ \E a \in CallerArgs(10) : sendtoaddress(1, a)
    \/ \E a \in CallerArgs(1) : settxfee(1, a)
    \/ \E a \in CallerArgs(0) : walletlock(1, a)
    \/ \E a \in CallerArgs(3) : walletpassphrase(1, a)
    \/ \E a \in CallerArgs(2) : walletpassphrasechange(1, a)

Spec == Init /\ [][Next]_vars

\* a client with several searchlogs calls outstanding on an injected provider
NextConcurrent ==
    \/ constructor(Provider(4, Function))
    \/ \E s \in Slots, a \in ConcurrentInputs : searchlogs(s, a)
    \/ \E s \in Slots : searchlogsThen(s)
    \/ \E s \in Slots : searchlogsRejected(s)
    \/ \E s \in Slots, v \in ConcurrentBatches : rawCallResolve(s, v)
    \/ \E s \in Slots : rawCallReject(s, Err("ECONNREFUSED"))

SpecConcurrent == Init /\ [][NextConcurrent]_vars

\* calls of the Encoder
NextEncode ==
    \/ \E n \in {"transfer", "setName"}, a \in EncInputs : encodeCall(n, a)
    \/ encodeArgument
    \/ finishEncoding

SpecEncode == Init /\ [][NextEncode]_vars

\* the job queue runs every reaction of a settled promise
NextFair ==
    \/ constructor(Provider(4, Function))
    \/ \E a \in SearchlogsInputs : searchlogs(1, a)
    \/ searchlogsThen(1)
    \/ searchlogsRejected(1)
    \/ \E v \in ConcurrentBatches : rawCallResolve(1, v)
    \/ \E e \in TransportErrors : rawCallReject(1, e)

SpecFair ==
    /\ Init /\ [][NextFair]_vars
    /\ WF_vars(searchlogsThen(1) \/ searchlogsRejected(1))

(***************************************************************************)
(* Properties                                                              *)
(***************************************************************************)
SearchlogsCalls == { s \in Slots : calls[s].method = "searchlogs" }

FiniteNumber(v) == v.kind = "number"
StringOrArray(v) == v.kind \in {"string", "array"}
ValidSearch(a) ==
    /\ FiniteNumber(a[1]) /\ FiniteNumber(a[2])
    /\ StringOrArray(a[3]) /\ StringOrArray(a[4])

\* C1: searchlogs called with a fromBlock or toBlock that is not a finite
\* number, or with addresses or topics that is neither a string nor an array,
\* throws synchronously; rawCall and Decoder.decodeSearchLog are never invoked.
C1_FailFast ==
    \A s \in SearchlogsCalls :
        ~ValidSearch(calls[s].args) =>
            /\ calls[s].returned = "threw"
            /\ calls[s].thrown.kind = "Error"
            /\ calls[s].thrown \notin TransportErrors
            /\ calls[s].raw = <<>>
            /\ calls[s].dec = <<>>
            /\ calls[s].tp = NoPromise /\ calls[s].dp = NoPromise

C1_Witness ==
    /\ calls[1].method = "searchlogs"
    /\ FiniteNumber(calls[1].args[1]) /\ FiniteNumber(calls[1].args[2])
    /\ StringOrArray(calls[1].args[3]) /\ calls[1].args[4] = Null
    /\ calls[1].returned = "threw"
    /\ calls[1].raw = <<>>

\* C2: for valid arguments searchlogs invokes rawCall exactly once; when that
\* call rejects with E the promise searchlogs returned rejects with the same E,
\* decodeSearchLog is never invoked and no second rawCall is issued.
C2_TransportErrorPassThrough ==
    /\ [](\A s \in SearchlogsCalls :
            ValidSearch(calls[s].args) =>
                /\ Len(calls[s].raw) = 1
                /\ calls[s].tp.state = "rejected" =>
                    /\ calls[s].tp.value \in TransportErrors
                    /\ calls[s].dec = <<>>
                    /\ calls[s].returned = "dp"
                    /\ calls[s].dp \in {Pending, Rejected(calls[s].tp.value)})
    /\ (calls[1].method = "searchlogs" /\ calls[1].tp.state = "rejected")
          ~> (calls[1].method = "searchlogs" /\ calls[1].dp = Rejected(calls[1].tp.value)
                /\ Len(calls[1].raw) = 1 /\ calls[1].dec = <<>>)

C2_Witness ==
    /\ calls[1].method = "searchlogs"
    /\ calls[1].tp = Rejected(Err("ECONNREFUSED"))
    /\ calls[1].dp = Rejected(Err("ECONNREFUSED"))
    /\ Len(calls[1].raw) = 1

\* a string filter as the one-element sequence, an array as it is
Canonical(v) == IF v.kind = "string" THEN Arr(<<v>>) ELSE v

\* C3: the rawCall of searchlogs has the params
\* [fromBlock, toBlock, {addresses: seq}, {topics: seq}], fromBlock and toBlock
\* unchanged, a string filter forwarded as [s] and an array with the same
\* elements in the same order.
C3_CanonicalFilters ==
    \A s \in SearchlogsCalls :
        /\ Len(calls[s].raw) <= 1
        /\ Len(calls[s].raw) = 1 =>
            /\ calls[s].raw[1].method = "searchlogs"
            /\ calls[s].raw[1].params =
                  Arr(<< calls[s].args[1], calls[s].args[2],
                         Rec("addresses", Canonical(calls[s].args[3])),
                         Rec("topics", Canonical(calls[s].args[4])) >>)

C3_Witness ==
    /\ calls[1].method = "searchlogs"
    /\ Len(calls[1].raw) = 1
    /\ calls[1].args[2] = Num(-1)
    /\ calls[1].args[3] = Str("c1")
    /\ calls[1].args[4] = Arr(<<Str("t2"), Str("t1")>>)
    /\ calls[1].raw[1].params.val[3] = Rec("addresses", Arr(<<Str("c1")>>))
    /\ calls[1].raw[1].params.val[4] = Rec("topics", Arr(<<Str("t2"), Str("t1")>>))

\* node method and declared parameter defaults of every pass-through method
\* (Undefined: the parameter has no default)
Declared ==
    [ getblock |-> [node |-> "getblock", defaults |-> <<Undefined, Bool(TRUE)>>],
      getblockchaininfo |-> [node |-> "getblockchaininfo", defaults |-> <<>>],
      getblockcount |-> [node |-> "getblockcount", defaults |-> <<>>],
      getblockhash |-> [node |-> "getblockhash", defaults |-> <<Undefined>>],
      gettransactionreceipt |-> [node |-> "gettransactionreceipt", defaults |-> <<Undefined>>],
      listcontracts |-> [node |-> "listcontracts", defaults |-> <<Num(1), Num(20)>>],
      getpeerinfo |-> [node |-> "getpeerinfo", defaults |-> <<>>],
      gethexaddress |-> [node |-> "gethexaddress", defaults |-> <<Undefined>>],
      fromhexaddress |-> [node |-> "fromhexaddress", defaults |-> <<Undefined>>],
      validateaddress |-> [node |-> "validateaddress", defaults |-> <<Undefined>>],
      backupwallet |-> [node |-> "backupwallet", defaults |-> <<Undefined>>],
      dumpprivkey |-> [node |-> "dumpprivkey", defaults |-> <<Undefined>>],
      encryptwallet |-> [node |-> "encryptwallet", defaults |-> <<Undefined>>],
      getaccount |-> [node |-> "getaccount", defaults |-> <<Undefined>>],
      getAccountAddress |-> [node |-> "getaccountaddress", defaults |-> <<Str("")>>],
      getaddressesbyaccount |-> [node |-> "getaddressesbyaccount", defaults |-> <<Str("")>>],
      getnewaddress |-> [node |-> "getnewaddress", defaults |-> <<Str("")>>],
      gettransaction |-> [node |-> "gettransaction", defaults |-> <<Undefined>>],
      getwalletinfo |-> [node |-> "getwalletinfo", defaults |-> <<>>],
      getunconfirmedbalance |-> [node |-> "getunconfirmedbalance", defaults |-> <<>>],
      importaddress |-> [node |-> "importaddress",
                         defaults |-> <<Undefined, Str(""), Bool(TRUE)>>],
      importprivkey |-> [node |-> "importprivkey",
                         defaults |-> <<Undefined, Str(""), Bool(TRUE)>>],
      importwallet |-> [node |-> "importwallet", defaults |-> <<Undefined>>],
      listaddressgroupings |-> [node |-> "listaddressgroupings", defaults |-> <<>>],
      listlockunspent |-> [node |-> "listlockunspent", defaults |-> <<>>],
      listunspent |-> [node |-> "listunspent", defaults |-> <<>>],
      sendtoaddress |-> [node |-> "sendtoaddress",
                         defaults |-> <<Undefined, Undefined, Str(""), Str("")>>],
      settxfee |-> [node |-> "settxfee", defaults |-> <<Undefined>>],
      walletlock |-> [node |-> "walletlock", defaults |-> <<>>],
      walletpassphrase |-> [node |-> "walletpassphrase",
                            defaults |-> <<Undefined, Undefined, Bool(FALSE)>>],
      walletpassphrasechange |-> [node |-> "walletpassphrasechange",
                                  defaults |-> <<Undefined, Undefined>>] ]

\* the caller's arguments in declared order, omitted ones replaced by defaults
DeclaredParams(m, a) ==
    IF Len(Declared[m].defaults) = 0
    THEN Undefined
    ELSE Arr([i \in 1..Len(Declared[m].defaults) |->
                IF i <= Len(a) /\ a[i] # Undefined THEN a[i] ELSE Declared[m].defaults[i]])

Matches(log, md) ==
    IF log.address \in DOMAIN md /\ Len(log.topics) >= 1
    THEN { i \in 1..Len(md[log.address]) : Selector(md[log.address][i]) = log.topics[1] }
    ELSE {}

FirstMatch(log, md) ==
    md[log.address][CHOOSE i \in Matches(log, md) : \A j \in Matches(log, md) : i <= j]

\* the entry matches an event and carries a topic or data word for each input
Decodable(log, md) ==
    /\ Matches(log, md) # {}
    /\ LET inputs == FirstMatch(log, md).inputs
       IN  /\ Len(log.data) >= Cardinality({k \in 1..Len(inputs) : ~inputs[k].indexed})
           /\ Len(log.topics) >= 1 + Cardinality({k \in 1..Len(inputs) : inputs[k].indexed})

\* C5: the decoded output of searchlogs has exactly one entry per raw entry of
\* the transport's batch, in the same order; every entry that matches an event
\* and decodes is decoded, and an entry that matches no event or fails to
\* decode is neither dropped nor aborts the batch: it is surfaced with its raw
\* content, distinct from the decoded entries.
C5_BatchResilience ==
    \A s \in SearchlogsCalls :
        calls[s].dp.state = "fulfilled" =>
            LET in == calls[s].tp.value.val
                out == calls[s].dp.value.val
                md == calls[s].args[5].val
            IN  /\ calls[s].dp.value.kind = "array"
                /\ Len(out) = Len(in)
                /\ \A i \in 1..Len(in) :
                     IF Decodable(in[i].val, md)
                     THEN /\ out[i].kind = "decodedLog"
                          /\ out[i].val.address = in[i].val.address
                          /\ out[i].val.event = FirstMatch(in[i].val, md).name
                          /\ Len(out[i].val.fields) = Len(FirstMatch(in[i].val, md).inputs)
                          /\ \A k \in 1..Len(out[i].val.fields) :
                               out[i].val.fields[k].name = FirstMatch(in[i].val, md).inputs[k].name
                     ELSE /\ out[i].kind \in {"log", "logError"}
                          /\ out[i].val = in[i].val

C5_Witness ==
    /\ calls[1].method = "searchlogs"
    /\ calls[1].dp.state = "fulfilled"
    /\ Len(calls[1].tp.value.val) = 3
    /\ calls[1].tp.value.val[2].val.address = "c9"
    /\ calls[1].dp.value.val[1].kind = "decodedLog"
    /\ calls[1].dp.value.val[2] = calls[1].tp.value.val[2]
    /\ calls[1].dp.value.val[3].kind = "decodedLog"

Falsy(v) ==
    \/ v.kind \in {"undefined", "null", "NaN"}
    \/ v = Str("") \/ v = Num(0) \/ v = Bool(FALSE)

HasCallableRawCall(v) == v.kind = "provider" /\ v.val.rawCall.kind = "function"

\* C6: initProtocol, as the Web3 constructor uses it, decides in this order: a
\* falsy protocol throws 'protocol cannot be undefined.'; a non-empty string
\* yields a new HttpProtocol of that URL; any other value whose rawCall is not
\* a function throws 'protocol is not a compatible Web3 Provider.'; a value
\* with a function rawCall becomes this.protocol as the identical object. No
\* Web3 instance holds an injected protocol without a callable rawCall.
C6_ProtocolDetection ==
    /\ ctor.called =>
        /\ Falsy(ctor.input) =>
              /\ ctor.threw /\ ctor.error = Err("protocol cannot be undefined.")
              /\ ~Constructed
        /\ (~Falsy(ctor.input) /\ ctor.input.kind = "string") =>
              ~ctor.threw /\ protocol = HttpProtocol(ctor.input.val)
        /\ (~Falsy(ctor.input) /\ ctor.input.kind # "string"
                /\ ~HasCallableRawCall(ctor.input)) =>
              /\ ctor.threw /\ ctor.error = Err("protocol is not a compatible Web3 Provider.")
              /\ ~Constructed
        /\ (~Falsy(ctor.input) /\ ctor.input.kind # "string"
                /\ HasCallableRawCall(ctor.input)) =>
              ~ctor.threw /\ protocol = ctor.input
    /\ (Constructed /\ protocol.kind # "HttpProtocol") => HasCallableRawCall(protocol)
    /\ Constructed => ctor.called /\ ~ctor.threw

C6_Witness ==
    /\ ctor.called
    /\ ctor.input = Provider(4, Function)
    /\ protocol = Provider(4, Function)

\* C8: sendtoaddress forwards every documented parameter: address, amount,
\* comment, commentTo, subtractFeeFromAmount, replaceable, confTarget,
\* estimateMode, senderAddress and changeToSender are, in that order, the
\* params of its single rawCall.
C8_SendToAddressForwardsAll ==
    \A s \in Slots :
        (calls[s].method = "sendtoaddress" /\ calls[s].args = [i \in 1..10 |-> Tok(i)]) =>
            /\ Len(calls[s].raw) = 1
            /\ calls[s].raw[1].method = "sendtoaddress"
            /\ calls[s].raw[1].params = Arr([i \in 1..10 |-> Tok(i)])

ObjectTyped(v) == v.kind \in {"null", "object", "array"}

\* C9: isConnected never throws and its promise never rejects; it issues
\* exactly one rawCall('getnetworkinfo') without params; its promise resolves
\* to false when that call throws or rejects, and when the call resolves with
\* v, to true exactly when v is of type object (null and arrays included).
C9_IsConnected ==
    \A s \in Slots :
        calls[s].method = "isConnected" =>
            /\ calls[s].returned = "dp"
            /\ calls[s].dp.state \in {"pending", "fulfilled"}
            /\ calls[s].raw = <<[method |-> "getnetworkinfo", params |-> Undefined]>>
            /\ calls[s].dp.state = "pending" => calls[s].tp.state # "none"
            /\ calls[s].dp.state = "fulfilled" =>
                 /\ calls[s].tp.state # "pending"
                 /\ calls[s].tp.state \in {"none", "rejected"} => calls[s].dp.value = Bool(FALSE)
                 /\ calls[s].tp.state = "fulfilled" =>
                        calls[s].dp.value = Bool(ObjectTyped(calls[s].tp.value))

C9_Witness ==
    /\ calls[1].method = "isConnected"
    /\ calls[1].tp = Fulfilled(Null)
    /\ calls[1].dp = Fulfilled(Bool(TRUE))

\* C10: with several searchlogs calls outstanding and their rawCalls settling
\* in any order, each call's decodeSearchLog is invoked at most once, only when
\* its own rawCall has resolved, with its own results, contractMetadata and
\* removeHexPrefix; the call's outcome is the decoding of exactly these, so it
\* does not depend on the other calls or on the order of resolution.
C10_CallIsolation ==
    \A s \in SearchlogsCalls :
        /\ Len(calls[s].dec) <= 1
        /\ calls[s].dec # <<>> =>
              /\ calls[s].tp.state = "fulfilled"
              /\ calls[s].dec[1] = <<calls[s].tp.value, calls[s].args[5], calls[s].args[6]>>
        /\ calls[s].dp.state = "fulfilled" <=> Len(calls[s].dec) = 1
        /\ calls[s].dp.state = "fulfilled" =>
              calls[s].dp.value =
                  decodeSearchLog(calls[s].tp.value, calls[s].args[5], calls[s].args[6])
        /\ calls[s].dp.state = "rejected" => calls[s].dp.value = calls[s].tp.value

C10_Witness ==
    /\ calls[1].method = "searchlogs" /\ calls[2].method = "searchlogs"
    /\ calls[1].tp.state = "pending"
    /\ calls[2].dp.state = "fulfilled"
    /\ calls[1].args[5] # calls[2].args[5]
    /\ calls[1].args[6] # calls[2].args[6]
    /\ Len(calls[2].tp.value.val) = 2

\* head words an argument occupies: its static encoding, or one offset word
HeadWords(arg) == IF IsDynamic(arg.kind) THEN 1 ELSE Len(encodeValue(arg.kind, arg.val))

RECURSIVE HeadWordsBefore(_, _)
HeadWordsBefore(args, k) ==
    IF k <= 1 THEN 0 ELSE HeadWordsBefore(args, k - 1) + HeadWords(args[k - 1])

\* tail words of the dynamic arguments before argument k
RECURSIVE TailWordsBefore(_, _)
TailWordsBefore(args, k) ==
    IF k <= 1 THEN 0
    ELSE TailWordsBefore(args, k - 1)
            + (IF IsDynamic(args[k - 1].kind)
               THEN Len(encodeValue(args[k - 1].kind, args[k - 1].val)) ELSE 0)

\* C7: in an encoded call every dynamic argument's head word is the byte
\* offset head length + cumulative length of the tails of the earlier dynamic
\* arguments, and its tail data sits at that offset, after all head words (the
\* payload is the selector followed by head and tail).
C7_DynamicOffsets ==
    enc.phase = "done" =>
        LET args == enc.args
            headLen == HeadWordsBefore(args, Len(args) + 1)
        IN  \A k \in 1..Len(args) :
                IsDynamic(args[k].kind) =>
                    LET word == enc.payload[1 + HeadWordsBefore(args, k) + 1]
                        data == encodeValue(args[k].kind, args[k].val)
                    IN  /\ word.kind = "word"
                        /\ word.val = WordBytes * headLen + WordBytes * TailWordsBefore(args, k)
                        /\ word.val >= WordBytes * headLen
                        /\ word.val % WordBytes = 0
                        /\ Len(enc.payload) >= 1 + (word.val \div WordBytes) + Len(data)
                        /\ SubSeq(enc.payload, 2 + (word.val \div WordBytes),
                                  1 + (word.val \div WordBytes) + Len(data)) = data

C7_Witness ==
    /\ enc.phase = "done"
    /\ Len(enc.args) = 3
    /\ enc.args[1] = Typed("string", Text("t", 33))
    /\ enc.args[2].kind = "uint256"
    /\ enc.args[3].kind = "string"
    /\ enc.payload[2] = Word(96)
    /\ enc.payload[4] = Word(192)

====
